---- MODULE Spec2Model ----
(***************************************************************************)
(* A model of the grouping engine of bgs_tool (src/bgs_tool/__main__.py):  *)
(* the two strategies group_files (sequential) and group_files_compact     *)
(* (best fit), run one loop iteration at a time over an input of file      *)
(* records; and of what stands around it: get_file_attributes, which       *)
(* collects the records with a pool of workers, save_groups, which writes  *)
(* the groups to the output directory, validate_groups, and main, which    *)
(* runs them one after the other.                                          *)
(*                                                                         *)
(* A file record is [name, size_bytes]; last_modified is carried through   *)
(* by the code and never read, so it is left out.  The name of the k-th    *)
(* record of the input is k: the records are distinct objects.             *)
(* Python lists are 0-based, the sequences here are 1-based: Python's      *)
(* index i is i + 1 here and Python's "no index" value -1 is 0 here.       *)
(***************************************************************************)
EXTENDS Integers, Sequences, FiniteSets, TLC

\* Bounds of the model.
MaxFiles == 5
MaxGroupSize == 3

\* The sizes a file can have (size_bytes is st_size, never negative).
FileSizes == 0..MaxGroupSize

\* The values of max_group_size_bytes a caller can pass: any integer.
GroupSizeLimits == (-1)..MaxGroupSize

\* The two values of --method.
Methods == {"default", "compact"}

VARIABLES
    files,                          \* the argument 'files', as a sequence of records
    lazy,                           \* TRUE: 'files' is a generator; FALSE: a list
    max_group_size_bytes,           \* the argument 'max_group_size_bytes'
    method,                         \* "default": group_files, "compact": group_files_compact
    pc,                             \* "call", "loop", "returned", "raised"
    raised,                         \* the argument the ValueError names, "" if none
    pos,                            \* number of records the for loop has consumed
    groups,                         \* local 'groups'; the return value once pc = "returned"
    current_group,                  \* group_files: local 'current_group'
    current_group_size_remaining,   \* group_files: local 'current_group_size_remaining'
    group_sizes,                    \* group_files_compact: local 'group_sizes'
    skipped                         \* names of the records the oversize warning was logged for

\* get_file_attributes
VARIABLES
    listed,                         \* the entries list_files yields, in scandir order
    futures,                        \* names of the submitted tasks that have not completed
    dropped,                        \* names of the tasks whose error was logged and swallowed
    collect_pc                      \* "idle", "call", "completing", "exhausted", "broken", "raised"

\* save_groups
VARIABLES
    output_dir,                     \* what is at the output path: [kind, entries]
    save_index,                     \* number of groups written
    save_pc                         \* "idle", "call", "prepare", "write", "returned", "raised", "exited"

\* validate_groups
VARIABLES
    valid_groups,                   \* local 'valid_groups'
    validate_index,                 \* number of groups examined
    report,                         \* arguments of the logger.info call, <<>> before it
    validate_pc                     \* "idle", "loop", "returned"

\* main
VARIABLES
    validate_flag,                  \* args.validate
    main_pc                         \* "idle", "collect", "group", "save", "validate", "done", "failed", "exited"

strategyVars == <<files, lazy, max_group_size_bytes, method, pc, raised, pos, groups,
                  current_group, current_group_size_remaining, group_sizes, skipped>>
collectVars == <<listed, futures, dropped, collect_pc>>
saveVars == <<output_dir, save_index, save_pc>>
validateVars == <<valid_groups, validate_index, report, validate_pc>>
mainVars == <<validate_flag, main_pc>>

vars == <<strategyVars, collectVars, saveVars, validateVars, mainVars>>

----------------------------------------------------------------------------
\* Helpers.

\* functools.reduce(lambda a, b: a + b["size_bytes"], group, 0)
RECURSIVE TotalSizeBytes(_)
TotalSizeBytes(group) ==
    IF group = <<>> THEN 0
    ELSE group[1].size_bytes + TotalSizeBytes(Tail(group))

\* The records of a sequence of sizes: record k is named k.
FilesOf(sizes) ==
    [k \in 1..Len(sizes) |-> [name |-> k, size_bytes |-> sizes[k]]]

\* "if not files": a list is falsy when empty, a generator object never is.
FilesIsFalsy(fs, isLazy) == (~isLazy) /\ Len(fs) = 0

\* "if not max_group_size_bytes": an int is falsy when it is 0.
MaxGroupSizeIsFalsy(limit) == limit = 0

\* "if current_file_size_bytes > max_group_size_bytes": the oversize skip.
IsOversizedOffByOne(size, limit) == size >= limit
IsOversized(size, limit) == size > limit

----------------------------------------------------------------------------
\* Nothing is at the output path.
Absent == [kind |-> "absent", entries |-> <<>>]

\* The functions that a specification does not run have not been called.
CollectIdle == listed = <<>> /\ futures = {} /\ dropped = {} /\ collect_pc = "idle"
SaveIdle == output_dir = Absent /\ save_index = 0 /\ save_pc = "idle"
ValidateIdle ==
    valid_groups = <<>> /\ validate_index = 0 /\ report = <<>> /\ validate_pc = "idle"
MainIdle == validate_flag = FALSE /\ main_pc = "idle"

\* The state before the call: any input, any limit, either strategy.
Init ==
    /\ CollectIdle /\ SaveIdle /\ ValidateIdle /\ MainIdle
    /\ \E n \in 0..MaxFiles : \E sizes \in [1..n -> FileSizes] : files = FilesOf(sizes)
    /\ lazy \in BOOLEAN
    /\ max_group_size_bytes \in GroupSizeLimits
    /\ method \in Methods
    /\ pc = "call"
    /\ raised = ""
    /\ pos = 0
    /\ groups = <<>>
    /\ current_group = <<>>
    /\ current_group_size_remaining = 0
    /\ group_sizes = <<>>
    /\ skipped = <<>>

\* The argument checks and the initialisation of the locals, the same in both
\* functions.  The logger is drawn here: it is falsy or a usable logger.
EnterWith(loggers) ==
    /\ pc = "call"
    /\ \E logger \in loggers :
        IF FilesIsFalsy(files, lazy) THEN
            /\ pc' = "raised" /\ raised' = "files"
            /\ UNCHANGED current_group_size_remaining
        ELSE IF MaxGroupSizeIsFalsy(max_group_size_bytes) THEN
            /\ pc' = "raised" /\ raised' = "max_group_size_bytes"
            /\ UNCHANGED current_group_size_remaining
        ELSE IF ~logger THEN
            /\ pc' = "raised" /\ raised' = "logger"
            /\ UNCHANGED current_group_size_remaining
        ELSE
            /\ pc' = "loop" /\ raised' = ""
            /\ current_group_size_remaining' =
                   IF method = "default" THEN max_group_size_bytes ELSE 0
    /\ UNCHANGED <<files, lazy, max_group_size_bytes, method, pos, groups,
                   current_group, group_sizes, skipped>>
    /\ UNCHANGED <<collectVars, saveVars, validateVars, mainVars>>

\* A call of either function by any caller.
Enter == EnterWith(BOOLEAN)

----------------------------------------------------------------------------
\* group_files: the sequential strategy.

\* "if current_file_size_bytes <= current_group_size_remaining"
FitsCurrentGroupIgnoringContents(size, remaining) == size <= max_group_size_bytes
FitsCurrentGroup(size, remaining) == size <= remaining

\* "current_group.append(file)"
AppendToCurrentGroupAtFront(group, file) == <<file>> \o group
AppendToCurrentGroup(group, file) == Append(group, file)

\* "if current_group: groups.append(current_group)" after the loop
AddLastGroupForgotten(gs, group) == gs
AddLastGroupAlways(gs, group) == Append(gs, group)
AddLastGroup(gs, group) == IF group # <<>> THEN Append(gs, group) ELSE gs

\* One iteration of "for file in files" in group_files.
GroupFilesStep ==
    /\ pc = "loop" /\ method = "default"
    /\ pos < Len(files)
    /\ LET file == files[pos + 1]
           current_file_size_bytes == file.size_bytes
       IN IF IsOversized(current_file_size_bytes, max_group_size_bytes) THEN
              /\ skipped' = Append(skipped, file.name)
              /\ UNCHANGED <<groups, current_group, current_group_size_remaining>>
          ELSE IF FitsCurrentGroup(current_file_size_bytes, current_group_size_remaining) THEN
              /\ current_group_size_remaining' =
                     current_group_size_remaining - current_file_size_bytes
              /\ current_group' = AppendToCurrentGroup(current_group, file)
              /\ UNCHANGED <<groups, skipped>>
          ELSE
              /\ groups' = Append(groups, current_group)
              /\ current_group' = <<file>>
              /\ current_group_size_remaining' =
                     max_group_size_bytes - current_file_size_bytes
              /\ UNCHANGED skipped
    /\ pos' = pos + 1
    /\ UNCHANGED <<files, lazy, max_group_size_bytes, method, pc, raised, group_sizes>>
    /\ UNCHANGED <<collectVars, saveVars, validateVars, mainVars>>

\* The input is exhausted: the last group is added and the groups returned.
GroupFilesReturn ==
    /\ pc = "loop" /\ method = "default"
    /\ pos = Len(files)
    /\ groups' = AddLastGroup(groups, current_group)
    /\ pc' = "returned"
    /\ UNCHANGED <<files, lazy, max_group_size_bytes, method, raised, pos,
                   current_group, current_group_size_remaining, group_sizes, skipped>>
    /\ UNCHANGED <<collectVars, saveVars, validateVars, mainVars>>

----------------------------------------------------------------------------
\* group_files_compact: the best-fit strategy.

\* The scan "for current_group_index, current_group_size_bytes in
\* enumerate(group_sizes)" from position k on, with the candidate found so far.
RECURSIVE ScanGroupSizes(_, _, _, _, _, _)
ScanGroupSizes(sizes, k, size, limit, tightest_index, tightest_size) ==
    IF k > Len(sizes) THEN tightest_index
    ELSE LET remaining_current_group_size_bytes == limit - sizes[k]
         IN IF /\ size <= remaining_current_group_size_bytes
               /\ remaining_current_group_size_bytes - size < tightest_size
            THEN ScanGroupSizes(sizes, k + 1, size, limit, k,
                                remaining_current_group_size_bytes - size)
            ELSE ScanGroupSizes(sizes, k + 1, size, limit, tightest_index, tightest_size)

\* tightest_fitting_group_index after the scan; 0 when no tracked size fits.
TightestFittingGroupIndex(sizes, size, limit) ==
    ScanGroupSizes(sizes, 1, size, limit, 0, limit + 1)

\* "group_sizes.pop(i)"
Pop(sizes, i) ==
    [k \in 1..(Len(sizes) - 1) |-> IF k < i THEN sizes[k] ELSE sizes[k + 1]]

\* "groups.append([file])"
AddNewGroupAtFront(gs, file) == <<(<<file>>)>> \o gs
AddNewGroup(gs, file) == Append(gs, <<file>>)

\* One iteration of "for file in files" in group_files_compact.
GroupFilesCompactStep ==
    /\ pc = "loop" /\ method = "compact"
    /\ pos < Len(files)
    /\ LET file == files[pos + 1]
           current_file_size_bytes == file.size_bytes
           tightest_fitting_group_index ==
               TightestFittingGroupIndex(group_sizes, current_file_size_bytes,
                                         max_group_size_bytes)
           added == [group_sizes EXCEPT ![tightest_fitting_group_index] =
                                             @ + current_file_size_bytes]
       IN IF IsOversized(current_file_size_bytes, max_group_size_bytes) THEN
              /\ skipped' = Append(skipped, file.name)
              /\ UNCHANGED <<groups, group_sizes>>
          ELSE IF tightest_fitting_group_index # 0 THEN
              /\ groups' = [groups EXCEPT ![tightest_fitting_group_index] =
                                               Append(@, file)]
              /\ group_sizes' =
                     IF added[tightest_fitting_group_index] = max_group_size_bytes
                     THEN Pop(added, tightest_fitting_group_index)
                     ELSE added
              /\ UNCHANGED skipped
          ELSE
              /\ groups' = AddNewGroup(groups, file)
              /\ group_sizes' = Append(group_sizes, current_file_size_bytes)
              /\ UNCHANGED skipped
    /\ pos' = pos + 1
    /\ UNCHANGED <<files, lazy, max_group_size_bytes, method, pc, raised,
                   current_group, current_group_size_remaining>>
    /\ UNCHANGED <<collectVars, saveVars, validateVars, mainVars>>

\* The input is exhausted: the groups are returned.
GroupFilesCompactReturn ==
    /\ pc = "loop" /\ method = "compact"
    /\ pos = Len(files)
    /\ pc' = "returned"
    /\ UNCHANGED <<files, lazy, max_group_size_bytes, method, raised, pos, groups,
                   current_group, current_group_size_remaining, group_sizes, skipped>>
    /\ UNCHANGED <<collectVars, saveVars, validateVars, mainVars>>

----------------------------------------------------------------------------
Next ==
    \/ Enter
    \/ GroupFilesStep
    \/ GroupFilesReturn
    \/ GroupFilesCompactStep
    \/ GroupFilesCompactReturn

Spec == Init /\ [][Next]_vars

----------------------------------------------------------------------------
\* get_file_attributes: a generator that stats the listed files in a pool of
\* worker processes and yields each result as its task completes.  What it
\* yields is the sequence 'files' a strategy reads, a generator (lazy).

\* Bound of the model: the number of files in the source directory.
MaxListed == 3

\* ProcessPoolExecutor(max_workers=4)
MaxWorkers == 4

\* No strategy has been called; 'files' is the generator, which has yielded nothing.
StrategyNotCalled ==
    /\ files = <<>> /\ lazy = TRUE
    /\ pc = "idle" /\ raised = "" /\ pos = 0
    /\ groups = <<>> /\ current_group = <<>> /\ current_group_size_remaining = 0
    /\ group_sizes = <<>> /\ skipped = <<>>

\* The directory holds any files; no task has been submitted.
CollectNotStarted ==
    /\ \E n \in 0..MaxListed : \E sizes \in [1..n -> FileSizes] : listed = FilesOf(sizes)
    /\ futures = {} /\ dropped = {} /\ collect_pc = "call"

\* "futures = {executor.submit(_get_file_attribute, task.path): task for task
\* in list_files(source_dir, logger)}": one task per entry, named by its position.
SubmittedButTheLast(entries) == 1..(Len(entries) - 1)
Submitted(entries) == 1..Len(entries)

\* The tasks a worker has taken up: tasks start in submission order, at most
\* MaxWorkers of them run at a time.
Started(pending) ==
    {k \in pending : k <= (Len(listed) - Cardinality(pending)) + MaxWorkers}

\* The argument checks, the listing and the submission of the tasks.
\* list_files raises IOError when the source directory does not exist.
CollectCallWith(dirs, loggers) ==
    /\ collect_pc = "call"
    /\ \E source_dir_ok \in dirs : \E logger \in loggers :
        IF ~(source_dir_ok /\ logger)
        THEN collect_pc' = "raised" /\ UNCHANGED futures
        ELSE collect_pc' = "completing" /\ futures' = Submitted(listed)
    /\ UNCHANGED <<listed, dropped>>
    /\ UNCHANGED <<strategyVars, saveVars, validateVars, mainVars>>

\* A call by any caller, the source directory there or not.
CollectCall == CollectCallWith(BOOLEAN, BOOLEAN)

\* "for future in as_completed(futures): result = future.result(); yield result"
TaskCompletes ==
    /\ collect_pc = "completing"
    /\ \E k \in Started(futures) :
        /\ futures' = futures \ {k}
        /\ files' = Append(files, listed[k])
    /\ UNCHANGED <<listed, dropped, collect_pc>>
    /\ UNCHANGED <<lazy, max_group_size_bytes, method, pc, raised, pos, groups,
                   current_group, current_group_size_remaining, group_sizes, skipped>>
    /\ UNCHANGED <<saveVars, validateVars, mainVars>>

\* future.result() raises FileNotFoundError or IOError: the error is logged
\* and the loop goes on without a record for that file.
TaskFails ==
    /\ collect_pc = "completing"
    /\ \E k \in Started(futures) :
        /\ futures' = futures \ {k}
        /\ dropped' = dropped \union {k}
    /\ UNCHANGED <<listed, collect_pc>>
    /\ UNCHANGED <<strategyVars, saveVars, validateVars, mainVars>>

\* The pool breaks (a worker process dies): future.result() raises
\* BrokenExecutor, "except BrokenExecutor" logs it and the generator ends.
PoolBreaks ==
    /\ collect_pc = "completing"
    /\ futures # {}
    /\ collect_pc' = "broken"
    /\ UNCHANGED <<listed, futures, dropped>>
    /\ UNCHANGED <<strategyVars, saveVars, validateVars, mainVars>>

\* Every future was handed out: the generator ends.
CollectExhausted ==
    /\ collect_pc = "completing"
    /\ futures = {}
    /\ collect_pc' = "exhausted"
    /\ UNCHANGED <<listed, futures, dropped>>
    /\ UNCHANGED <<strategyVars, saveVars, validateVars, mainVars>>

\* get_file_attributes read to its end by a caller, as list(...) does.
InitCollect ==
    /\ StrategyNotCalled /\ max_group_size_bytes = 1 /\ method = "default"
    /\ CollectNotStarted
    /\ SaveIdle /\ ValidateIdle /\ MainIdle

NextCollect ==
    \/ CollectCall
    \/ TaskCompletes
    \/ TaskFails
    \/ PoolBreaks
    \/ CollectExhausted

SpecCollect == InitCollect /\ [][NextCollect]_vars

----------------------------------------------------------------------------
\* The argument 'groups' of save_groups and validate_groups: any list of
\* groups, whether a strategy made it or not.

\* Bound of the model: the number of records in the groups of such a list.
MaxGrouped == 3

\* The records fs cut into consecutive groups after the positions in cuts.
RECURSIVE CutInto(_, _)
CutInto(fs, cuts) ==
    IF fs = <<>> THEN <<>>
    ELSE LET first == IF cuts = {} THEN Len(fs)
                      ELSE CHOOSE c \in cuts : \A d \in cuts : c <= d
         IN <<SubSeq(fs, 1, first)>>
                \o CutInto(SubSeq(fs, first + 1, Len(fs)),
                           {c - first : c \in cuts \ {first}})

\* 'groups' is a list of non-empty groups of records, or the empty list.
AnyGroups ==
    \E n \in 0..MaxGrouped : \E sizes \in [1..n -> FileSizes] :
        \E cuts \in SUBSET (1..(n - 1)) : groups = CutInto(FilesOf(sizes), cuts)

\* The strategy variables when 'groups' is an argument given by the caller.
GroupsGiven ==
    /\ files = <<>> /\ lazy = FALSE /\ method = "default"
    /\ pc = "idle" /\ raised = "" /\ pos = 0
    /\ current_group = <<>> /\ current_group_size_remaining = 0
    /\ group_sizes = <<>> /\ skipped = <<>>
    /\ AnyGroups

----------------------------------------------------------------------------
\* save_groups: writes each group to a file of the output directory, which it
\* creates anew.  The output path is a directory with entries (a name and what
\* the file holds), a regular file, or absent.

\* format(value, "03d"): the decimal digits, with zeros in front up to the width.
RECURSIVE ZeroPadded(_, _)
ZeroPadded(digits, width) ==
    IF Len(digits) < width THEN ZeroPadded("0" \o digits, width) ELSE digits

\* f"group_{index + 1:03d}.json", index counting from 0
GroupFileName(index) == "group_" \o ZeroPadded(ToString(index + 1), 3) \o ".json"

\* What may be at the output path before the call.
LeftOverNames == {"group_001.json", "group_009.json", "notes.txt"}
OutputPathStates ==
    {Absent, [kind |-> "file", entries |-> <<>>]}
        \union {[kind |-> "dir", entries |-> [name \in names |-> "left over"]] :
                    names \in SUBSET LeftOverNames}

\* "if not groups": a list is falsy when empty.
GroupsIsFalsyNever(gs) == FALSE
GroupsIsFalsy(gs) == Len(gs) = 0

\* shutil.rmtree(output_dir) if it is a directory, then os.makedirs(output_dir).
RecreatedKeepingEntries(path) == [kind |-> "dir", entries |-> path.entries]
Recreated(path) == [kind |-> "dir", entries |-> <<>>]

\* open(group_file_path, "w") and json.dump(group, file): the file is created
\* or truncated and holds the group.
Written(path, name, group) ==
    [path EXCEPT !.entries =
        [n \in (DOMAIN path.entries) \union {name} |->
            IF n = name THEN group ELSE path.entries[n]]]

\* The argument checks.  The logger and the output_dir argument are drawn here.
SaveCallWith(loggers, paths) ==
    /\ save_pc = "call"
    /\ \E logger \in loggers : \E output_dir_given \in paths :
        save_pc' = IF GroupsIsFalsy(groups) \/ ~logger \/ ~output_dir_given
                   THEN "raised" ELSE "prepare"
    /\ UNCHANGED <<output_dir, save_index>>
    /\ UNCHANGED <<strategyVars, collectVars, validateVars, mainVars>>

SaveCall == SaveCallWith(BOOLEAN, BOOLEAN)

\* The first try block.  rmtree or makedirs may raise an IOError, which is
\* logged before sys.exit(-1); makedirs raises when the path is a regular file.
SavePrepare ==
    /\ save_pc = "prepare"
    /\ \E outcome \in {"ok", "rmtree fails", "makedirs fails"} :
        \/ /\ outcome = "ok" /\ output_dir.kind # "file"
           /\ output_dir' = Recreated(output_dir)
           /\ save_pc' = "write"
        \/ /\ outcome = "rmtree fails" /\ output_dir.kind = "dir"
           /\ UNCHANGED output_dir
           /\ save_pc' = "exited"
        \/ /\ outcome = "makedirs fails"
           /\ output_dir' = IF output_dir.kind = "dir" THEN Absent ELSE output_dir
           /\ save_pc' = "exited"
    /\ UNCHANGED save_index
    /\ UNCHANGED <<strategyVars, collectVars, validateVars, mainVars>>

\* One iteration of "for index, group in enumerate(groups)".  A
\* FileExistsError is logged before sys.exit(-1); any other error of open or
\* json.dump leaves save_groups as an exception.
SaveWrite ==
    /\ save_pc = "write"
    /\ save_index < Len(groups)
    /\ \E outcome \in {"ok", "FileExistsError", "other error"} :
        \/ /\ outcome = "ok"
           /\ output_dir' = Written(output_dir, GroupFileName(save_index),
                                    groups[save_index + 1])
           /\ save_index' = save_index + 1
           /\ UNCHANGED save_pc
        \/ /\ outcome = "FileExistsError"
           /\ save_pc' = "exited"
           /\ UNCHANGED <<output_dir, save_index>>
        \/ /\ outcome = "other error"
           /\ save_pc' = "raised"
           /\ UNCHANGED <<output_dir, save_index>>
    /\ UNCHANGED <<strategyVars, collectVars, validateVars, mainVars>>

\* Every group was written: save_groups returns.
SaveReturn ==
    /\ save_pc = "write"
    /\ save_index = Len(groups)
    /\ save_pc' = "returned"
    /\ UNCHANGED <<output_dir, save_index>>
    /\ UNCHANGED <<strategyVars, collectVars, validateVars, mainVars>>

\* A call of save_groups with any list of groups and anything at the output path.
InitSave ==
    /\ GroupsGiven /\ max_group_size_bytes = 1
    /\ CollectIdle /\ ValidateIdle /\ MainIdle
    /\ output_dir \in OutputPathStates
    /\ save_index = 0
    /\ save_pc = "call"

NextSave ==
    \/ SaveCall
    \/ SavePrepare
    \/ SaveWrite
    \/ SaveReturn

SpecSave == InitSave /\ [][NextSave]_vars

----------------------------------------------------------------------------
\* validate_groups: counts the groups whose members sum to no more than the
\* limit and logs the count.

\* "functools.reduce(...) <= max_group_size_bytes"
IsValidGroupStrictly(group, limit) == TotalSizeBytes(group) < limit
IsValidGroup(group, limit) == TotalSizeBytes(group) <= limit

\* One iteration of "for group in groups".
ValidateStep ==
    /\ validate_pc = "loop"
    /\ validate_index < Len(groups)
    /\ LET group == groups[validate_index + 1]
       IN valid_groups' = IF IsValidGroup(group, max_group_size_bytes)
                          THEN Append(valid_groups, group)
                          ELSE valid_groups
    /\ validate_index' = validate_index + 1
    /\ UNCHANGED <<report, validate_pc>>
    /\ UNCHANGED <<strategyVars, collectVars, saveVars, mainVars>>

\* logger.info("%d valid groups out of %d", len(valid_groups), len(groups))
ValidateReport ==
    /\ validate_pc = "loop"
    /\ validate_index = Len(groups)
    /\ report' = <<Len(valid_groups), Len(groups)>>
    /\ validate_pc' = "returned"
    /\ UNCHANGED <<valid_groups, validate_index>>
    /\ UNCHANGED <<strategyVars, collectVars, saveVars, mainVars>>

\* A call of validate_groups with any list of groups and any limit.
InitValidate ==
    /\ GroupsGiven /\ max_group_size_bytes \in GroupSizeLimits
    /\ CollectIdle /\ SaveIdle /\ MainIdle
    /\ valid_groups = <<>> /\ validate_index = 0 /\ report = <<>>
    /\ validate_pc = "loop"

NextValidate ==
    \/ ValidateStep
    \/ ValidateReport

SpecValidate == InitValidate /\ [][NextValidate]_vars

----------------------------------------------------------------------------
\* main: the selected strategy reads the generator get_file_attributes, the
\* groups it returns go to save_groups and, with --validate, to validate_groups.

\* "--max-group-size-bytes" is parsed by positive_int: the limit is positive.
PositiveLimits == 1..MaxGroupSize

\* "groups = grouping_function(get_file_attributes(source_dir, logger), ...)":
\* the generator is made, none of its body has run, and the strategy is called.
MainCall ==
    /\ main_pc = "call"
    /\ main_pc' = "group"
    /\ pc' = "call"
    /\ UNCHANGED <<files, lazy, max_group_size_bytes, method, raised, pos, groups,
                   current_group, current_group_size_remaining, group_sizes, skipped>>
    /\ UNCHANGED <<collectVars, saveVars, validateVars, validate_flag>>

\* The strategy's argument checks, with the logger main has checked.
MainEnter == main_pc = "group" /\ EnterWith({TRUE})

\* The strategy's for loop asks the generator for its next record: the
\* generator runs on, to its next yield or to its end.
MainNextRecord ==
    /\ main_pc = "group" /\ pc = "loop" /\ pos = Len(files)
    /\ \/ CollectCallWith(BOOLEAN, {TRUE})
       \/ TaskCompletes
       \/ TaskFails
       \/ PoolBreaks
       \/ CollectExhausted

\* The error of list_files leaves the generator, the strategy and main.
MainCollectRaised ==
    /\ main_pc = "group" /\ collect_pc = "raised"
    /\ main_pc' = "failed"
    /\ UNCHANGED <<strategyVars, collectVars, saveVars, validateVars, validate_flag>>

\* One iteration of the strategy's loop on the record the generator yielded.
MainGroupStep ==
    /\ main_pc = "group"
    /\ \/ GroupFilesStep
       \/ GroupFilesCompactStep

\* The generator has ended, after its last future or after "except
\* BrokenExecutor": the loop ends and the strategy returns its groups.
MainGroupReturn ==
    /\ main_pc = "group"
    /\ collect_pc \in {"exhausted", "broken"}
    /\ \/ GroupFilesReturn
       \/ GroupFilesCompactReturn

\* "if not groups: logger.warning(...) else: logger.info(...)" and then
\* "save_groups(groups, args.output_dir, logger)", whatever groups is.
MainSaveCall ==
    /\ main_pc = "group" /\ pc = "returned"
    /\ main_pc' = "save"
    /\ save_pc' = "call"
    /\ UNCHANGED <<output_dir, save_index>>
    /\ UNCHANGED <<strategyVars, collectVars, validateVars, validate_flag>>

\* save_groups runs, with main's logger and args.output_dir.
MainSave ==
    /\ main_pc = "save"
    /\ \/ SaveCallWith({TRUE}, {TRUE})
       \/ SavePrepare
       \/ SaveWrite
       \/ SaveReturn

\* save_groups has raised: the exception leaves main.
MainSaveRaised ==
    /\ main_pc = "save" /\ save_pc = "raised"
    /\ main_pc' = "failed"
    /\ UNCHANGED <<strategyVars, collectVars, saveVars, validateVars, validate_flag>>

\* save_groups has called sys.exit(-1).
MainSaveExited ==
    /\ main_pc = "save" /\ save_pc = "exited"
    /\ main_pc' = "exited"
    /\ UNCHANGED <<strategyVars, collectVars, saveVars, validateVars, validate_flag>>

\* save_groups has returned: "if args.validate: validate_groups(...)", and
\* without it the closing logger.info.
MainSaveReturned ==
    /\ main_pc = "save" /\ save_pc = "returned"
    /\ IF validate_flag
       THEN main_pc' = "validate" /\ validate_pc' = "loop"
       ELSE main_pc' = "done" /\ UNCHANGED validate_pc
    /\ UNCHANGED <<valid_groups, validate_index, report>>
    /\ UNCHANGED <<strategyVars, collectVars, saveVars, validate_flag>>

\* validate_groups runs.
MainValidate ==
    /\ main_pc = "validate"
    /\ \/ ValidateStep
       \/ ValidateReport

\* validate_groups has returned: the closing logger.info, and main returns.
MainValidateReturned ==
    /\ main_pc = "validate" /\ validate_pc = "returned"
    /\ main_pc' = "done"
    /\ UNCHANGED <<strategyVars, collectVars, saveVars, validateVars, validate_flag>>

\* What may be at args.output_dir before the run: nothing, a regular file, or
\* the directory an earlier run left.
MainOutputPathStates ==
    {path \in OutputPathStates :
        path.kind = "dir" => DOMAIN path.entries = LeftOverNames}

\* A run of main on any source directory, with either method, any positive
\* limit, with or without --validate.
InitMain ==
    /\ StrategyNotCalled
    /\ max_group_size_bytes \in PositiveLimits
    /\ method \in Methods
    /\ CollectNotStarted
    /\ output_dir \in MainOutputPathStates /\ save_index = 0 /\ save_pc = "idle"
    /\ ValidateIdle
    /\ validate_flag \in BOOLEAN
    /\ main_pc = "call"

NextMain ==
    \/ MainCall
    \/ MainEnter
    \/ MainNextRecord
    \/ MainCollectRaised
    \/ MainGroupStep
    \/ MainGroupReturn
    \/ MainSaveCall
    \/ MainSave
    \/ MainSaveRaised
    \/ MainSaveExited
    \/ MainSaveReturned
    \/ MainValidate
    \/ MainValidateReturned

SpecMain == InitMain /\ [][NextMain]_vars

----------------------------------------------------------------------------
\* Vocabulary of the properties.  These are written from the statements, not
\* from the operators of the model above.

\* The members of all groups, group after group.
RECURSIVE Flatten(_)
Flatten(gs) == IF gs = <<>> THEN <<>> ELSE Head(gs) \o Flatten(Tail(gs))

\* Record k of the input is larger than a whole group may be.
Oversized(k) == files[k].size_bytes > max_group_size_bytes

\* The input without its oversized records, in input order.
RECURSIVE WithoutOversized(_)
WithoutOversized(fs) ==
    IF fs = <<>> THEN <<>>
    ELSE IF Head(fs).size_bytes > max_group_size_bytes
         THEN WithoutOversized(Tail(fs))
         ELSE <<Head(fs)>> \o WithoutOversized(Tail(fs))

\* How often record k of the input occurs in the groups.
Occurrences(k) ==
    Cardinality({j \in 1..Len(Flatten(groups)) : Flatten(groups)[j] = files[k]})

\* What is left of the limit in group g, from the group's members.
RemainingOf(g) == max_group_size_bytes - TotalSizeBytes(groups[g])

\* The strategy is about to place the next record of the input in a group.
Placing(m) ==
    /\ pc = "loop" /\ method = m /\ pos < Len(files)
    /\ files[pos + 1].size_bytes <= max_group_size_bytes

\* The groups that can hold a record of the given size.
Holders(size) == {g \in 1..Len(groups) : RemainingOf(g) >= size}

\* Among them, those that would be left with the least capacity.
TightestHolders(size) ==
    {g \in Holders(size) : \A h \in Holders(size) : RemainingOf(g) <= RemainingOf(h)}

\* The groups after the record was appended to group g.
GroupsWith(g, file) == [groups EXCEPT ![g] = Append(@, file)]

LowestOf(S) == CHOOSE g \in S : \A h \in S : g <= h

----------------------------------------------------------------------------
\* C1: for records of size >= 0 and a positive limit, every group returned by
\* group_files_compact has a sum of member sizes <= max_group_size_bytes.
C1_CompactGroupsWithinLimit ==
    (pc = "returned" /\ method = "compact" /\ max_group_size_bytes > 0)
        => \A g \in 1..Len(groups) : TotalSizeBytes(groups[g]) <= max_group_size_bytes

\* C2: for records of size >= 0 and a positive limit, every group returned by
\* group_files has a sum of member sizes <= max_group_size_bytes.
C2_SequentialGroupsWithinLimit ==
    (pc = "returned" /\ method = "default" /\ max_group_size_bytes > 0)
        => \A g \in 1..Len(groups) : TotalSizeBytes(groups[g]) <= max_group_size_bytes

\* C2 witness: group_files returned several groups, one of them filled to the
\* limit by more than one record.
C2_Witness ==
    /\ pc = "returned" /\ method = "default" /\ max_group_size_bytes > 0
    /\ Len(groups) >= 2
    /\ \E g \in 1..Len(groups) :
           Len(groups[g]) >= 2 /\ TotalSizeBytes(groups[g]) = max_group_size_bytes

\* C3: with either strategy, the records in the returned groups plus the
\* oversized records skipped are as many as the input records, and every
\* record that is not oversized is in exactly one group, once.
C3_EveryRecordAccountedFor ==
    pc = "returned" =>
        /\ Len(Flatten(groups)) + Len(skipped) = Len(files)
        /\ \A k \in 1..Len(files) : (~Oversized(k)) => Occurrences(k) = 1

\* C3 witness: group_files_compact returned at least two groups after
\* skipping a record and after dropping a full group from its tracked sizes.
C3_Witness ==
    /\ pc = "returned" /\ method = "compact"
    /\ Len(skipped) >= 1 /\ Len(groups) >= 2
    /\ Len(group_sizes) < Len(groups)

\* C4: in group_files_compact a group whose remaining capacity is exactly
\* zero never gets another record: its members stay as they are.
C4_FullGroupStaysAsItIs ==
    [][\A g \in 1..Len(groups) :
           (method = "compact" /\ pc = "loop" /\ RemainingOf(g) = 0)
               => (Len(groups') >= g /\ groups'[g] = groups[g])]_vars

\* C5: group_files_compact appends each record that is not oversized to a
\* group that can hold it and that is left with the least capacity among the
\* groups that can hold it, and it creates a new group with only that record
\* exactly when no group can hold it.  Stated for records of positive size,
\* which only a group that is not full can hold.
C5_BestFitPlacement ==
    [][(Placing("compact") /\ files[pos + 1].size_bytes > 0) =>
           LET file == files[pos + 1]
           IN IF Holders(file.size_bytes) = {}
              THEN groups' = Append(groups, <<file>>)
              ELSE \E g \in TightestHolders(file.size_bytes) :
                       groups' = GroupsWith(g, file)]_vars

\* C6: when two or more groups would be left with the same least capacity,
\* group_files_compact appends the record to the one that comes first in the
\* output list.  Stated for records of positive size, as C5.
C6_TieGoesToLowestIndex ==
    [][(/\ Placing("compact") /\ files[pos + 1].size_bytes > 0
        /\ Cardinality(TightestHolders(files[pos + 1].size_bytes)) >= 2) =>
           groups' = GroupsWith(LowestOf(TightestHolders(files[pos + 1].size_bytes)),
                                files[pos + 1])]_vars

\* C7: the members of the groups group_files returns, group after group, are
\* the input without its oversized records, in input order.
C7_SequentialKeepsInputOrder ==
    (pc = "returned" /\ method = "default") => Flatten(groups) = WithoutOversized(files)

\* C7 witness: group_files returned at least two groups, having skipped a
\* record that was neither the first nor the last of the input.
C7_Witness ==
    /\ pc = "returned" /\ method = "default"
    /\ Len(groups) >= 2
    /\ \E k \in 2..(Len(files) - 1) : Oversized(k) /\ ~Oversized(k - 1) /\ ~Oversized(k + 1)

\* C8: with either strategy an oversized record is in no returned group and
\* raises nothing: the only errors are those of the argument checks, before
\* any record is read; the whole input is read, every record after an
\* oversized one that is not oversized itself is in a group, and an input of
\* oversized records only gives no group at all.
C8_OversizedSkippedRunContinues ==
    /\ pc = "raised" => (pos = 0 /\ skipped = <<>>)
    /\ pc = "returned" =>
           /\ pos = Len(files)
           /\ \A k \in 1..Len(files) :
                  IF Oversized(k) THEN Occurrences(k) = 0 ELSE Occurrences(k) >= 1
           /\ (\A k \in 1..Len(files) : Oversized(k)) => groups = <<>>

\* C8 witness: a run returned groups although an oversized record came
\* before a record that is not oversized.
C8_Witness ==
    /\ pc = "returned" /\ max_group_size_bytes > 0
    /\ groups # <<>>
    /\ \E k \in 1..Len(files) : \E j \in (k + 1)..Len(files) : Oversized(k) /\ ~Oversized(j)

\* C9: an input of no records, a list or a generator, makes either strategy
\* raise; it never reaches the loop and never returns.  Stated for a positive
\* limit, so that no other argument check stands in for the one on the input.
C9_EmptyInputRaises ==
    (Len(files) = 0 /\ max_group_size_bytes > 0) => pc \in {"call", "raised"}

\* C10: a limit of zero or less makes either strategy raise before any
\* record is read; it never reaches the loop and never returns.  Stated for
\* an input that has records, so that no other argument check stands in for
\* the one on the limit.
C10_NonPositiveLimitRaises ==
    (max_group_size_bytes <= 0 /\ Len(files) > 0) => pc \in {"call", "raised"}

\* C12: whatever the order in which the tasks complete, when no task fails
\* and the pool does not break get_file_attributes yields one record for each
\* listed file, none lost and none twice.
C12_OneRecordPerListedFile ==
    (collect_pc = "exhausted" /\ dropped = {}) =>
        /\ Len(files) = Len(listed)
        /\ \A k \in 1..Len(listed) :
               Cardinality({j \in 1..Len(files) : files[j] = listed[k]}) = 1

\* C12 witness: every record was yielded, in an order that is not the order
\* of the listing.
C12_Witness ==
    /\ collect_pc = "exhausted" /\ dropped = {}
    /\ Len(listed) >= 2
    /\ files # listed

\* The sum of the sizes of a group's members, counted from its last member.
RECURSIVE MemberSizeSum(_)
MemberSizeSum(group) ==
    IF Len(group) = 0 THEN 0
    ELSE group[Len(group)].size_bytes + MemberSizeSum(SubSeq(group, 1, Len(group) - 1))

\* C14: validate_groups reports as valid the number of groups whose member
\* sizes sum to <= max_group_size_bytes, out of the number of groups, and it
\* leaves the list of groups and every group's members as they were.
C14_ValidatorCountsAndLeavesGroups ==
    [][/\ groups' = groups
       /\ (validate_pc' = "returned") =>
              report' = <<Cardinality({g \in 1..Len(groups) :
                                           MemberSizeSum(groups[g]) <= max_group_size_bytes}),
                          Len(groups)>>]_vars

\* C14 witness: of three groups one exceeds the limit, and 2 of 3 is reported.
C14_Witness ==
    /\ validate_pc = "returned"
    /\ Len(groups) = 3
    /\ report = <<2, 3>>

\* The names of the group files, first to sixth.
ExpectedFileNames ==
    <<"group_001.json", "group_002.json", "group_003.json",
      "group_004.json", "group_005.json", "group_006.json">>

\* C15: once save_groups has succeeded on N groups the output directory holds
\* the N group files and nothing else, the file of the group at position i
\* (from 0) being group_ followed by i + 1 in at least three digits and .json;
\* while it writes, the directory holds only the files written so far: what
\* was there before is gone before the first write.
C15_OutputDirectoryHoldsTheGroups ==
    /\ save_pc = "write" =>
           /\ output_dir.kind = "dir"
           /\ DOMAIN output_dir.entries = {ExpectedFileNames[i] : i \in 1..save_index}
    /\ save_pc = "returned" =>
           /\ output_dir.kind = "dir"
           /\ DOMAIN output_dir.entries = {ExpectedFileNames[i] : i \in 1..Len(groups)}
           /\ \A i \in 1..Len(groups) :
                  output_dir.entries[ExpectedFileNames[i]] = groups[i]

\* C15 witness: save_groups returned after writing at least two groups.
C15_Witness ==
    /\ save_pc = "returned"
    /\ Len(groups) >= 2
    /\ save_index = Len(groups)

\* C16: with an empty list of groups save_groups raises and the output path
\* stays as it was: nothing deleted, nothing created, nothing written.
C16_EmptyGroupsRaiseBeforeAnyWrite ==
    [][Len(groups) = 0 => (save_pc' = "raised" /\ output_dir' = output_dir)]_vars

\* C16 witness: save_groups raised on an empty list while the output
\* directory existed with files in it.
C16_Witness ==
    /\ save_pc = "raised"
    /\ Len(groups) = 0
    /\ output_dir.kind = "dir"
    /\ DOMAIN output_dir.entries # {}

\* C11: when the worker pool of get_file_attributes breaks, the run of main
\* does not go on to save the records collected so far and end as a
\* successful run: save_groups is not called and main does not complete.
C11_BrokenPoolAbortsTheRun ==
    collect_pc = "broken" => (save_pc = "idle" /\ main_pc # "done")

\* C19: a run of main over a source directory whose files are all oversized,
\* every one of them collected, does not end with an exception.
C19_AllOversizedRunCompletes ==
    (/\ Len(listed) > 0
     /\ \A k \in 1..Len(listed) : listed[k].size_bytes > max_group_size_bytes
     /\ collect_pc = "exhausted" /\ dropped = {})
        => main_pc # "failed"

\* C17: in group_files_compact a group keeps its position in the list and
\* the members it has, new groups come at the end, and the record that
\* created a group comes earlier in the input than the record that created
\* any group after it (a record's name is its position in the input).
C17_CompactGroupsInCreationOrder ==
    [][method = "compact" =>
          /\ Len(groups') >= Len(groups)
          /\ \A g \in 1..Len(groups) :
                 /\ Len(groups'[g]) >= Len(groups[g])
                 /\ SubSeq(groups'[g], 1, Len(groups[g])) = groups[g]
          /\ \A g \in 1..Len(groups') : \A h \in 1..Len(groups') :
                 g < h => groups'[g][1].name < groups'[h][1].name]_vars

\* C17 witness: group_files_compact returned several groups, and an earlier
\* group holds a record that came later in the input than the record a later
\* group began with.
C17_Witness ==
    /\ pc = "returned" /\ method = "compact"
    /\ \E g \in 1..Len(groups) : \E h \in 1..Len(groups) :
           /\ g < h
           /\ \E m \in 1..Len(groups[g]) : groups[g][m].name > groups[h][1].name

\* C18: group_files appends a record that is not oversized to the current
\* group exactly when its size is no more than what the members of the
\* current group leave of the limit; otherwise the current group is closed
\* and the record starts the next one, with the limit less its size
\* remaining.  The closed groups stay as they are.
C18_SequentialPlacement ==
    [][method = "default" =>
          /\ \A g \in 1..Len(groups) :
                 Len(groups') >= g /\ groups'[g] = groups[g]
          /\ Placing("default") =>
                 LET file == files[pos + 1]
                     remaining == max_group_size_bytes - MemberSizeSum(current_group)
                 IN IF file.size_bytes <= remaining
                    THEN /\ current_group' = Append(current_group, file)
                         /\ groups' = groups
                         /\ current_group_size_remaining' = remaining - file.size_bytes
                    ELSE /\ groups' = Append(groups, current_group)
                         /\ current_group' = <<file>>
                         /\ current_group_size_remaining' =
                                max_group_size_bytes - file.size_bytes]_vars

\* C18 witness: group_files returned groups of which an earlier one had room
\* for a record of positive size that is in a later one.
C18_Witness ==
    /\ pc = "returned" /\ method = "default"
    /\ \E g \in 1..Len(groups) : \E h \in 1..Len(groups) :
           /\ g < h
           /\ \E m \in 1..Len(groups[h]) :
                  /\ groups[h][m].size_bytes > 0
                  /\ groups[h][m].size_bytes
                         <= max_group_size_bytes - MemberSizeSum(groups[g])

\* C20: no group of the list either strategy builds and returns is empty.
C20_NoEmptyGroup ==
    \A g \in 1..Len(groups) : Len(groups[g]) >= 1

\* C20 witness: group_files returned groups for an input that began with an
\* oversized record and had another oversized record later on.
C20_Witness ==
    /\ pc = "returned" /\ method = "default"
    /\ Len(groups) >= 2
    /\ Len(skipped) >= 2
    /\ skipped[1] = 1

\* C21: throughout group_files_compact every tracked size group_sizes[k] is
\* the sum of the member sizes of groups[k], the group that an insertion
\* chosen at scan index k appends to.
C21_GroupSizesAlignedWithGroups ==
    method = "compact" =>
        \A k \in 1..Len(group_sizes) :
            /\ k <= Len(groups)
            /\ group_sizes[k] = MemberSizeSum(groups[k])

====
